---- MODULE Spec2Model ----
(***************************************************************************)
(* PDFNotes/src/App.tsx: the App component of the PDF annotation tool.     *)
(*                                                                         *)
(* The component's React state (file, numPages, currentPage,               *)
(* annotationMode, penColor, penSize, highlighterColor, highlighterSize),  *)
(* its refs (fabricRef, and canvasRef / pageRef through the state of the   *)
(* <Document> that mounts them), the fabric canvases that exist, and the   *)
(* window's resize listeners.  One action per event handler; an action is  *)
(* the handler, the re-render, and the run of the useEffect of lines       *)
(* 47-115 when one of its dependencies changed.                            *)
(***************************************************************************)
EXTENDS Integers, Sequences, FiniteSets

VARIABLES
    file,              \* useState<File | null>            (line 13)
    numPages,          \* useState<number>(0)              (line 14)
    currentPage,       \* useState<number>(1)              (line 15)
    annotationMode,    \* useState<'pen'|...|null>(null)   (line 16)
    penColor,          \* line 17
    penSize,           \* line 18
    highlighterColor,  \* line 19
    highlighterSize,   \* line 20
    fabricRef,         \* useRef<fabric.Canvas | null>     (line 23)
    canvases,          \* the fabric canvases created and not yet disposed
    docState,          \* what <Document file={file}> (line 199) shows
    clientSize,        \* pageRef.current.clientWidth / clientHeight
    resizeListeners,   \* handleResize closures registered on window
    hasCleanup,        \* the last run of the effect returned its cleanup
    mounted,           \* the App component is mounted
    lastOp,            \* history: the handler that ran last
    events,            \* history: canvas lifecycle events of the last step
    preLoad            \* history: the session before the last file selection

vars == <<file, numPages, currentPage, annotationMode, penColor, penSize,
          highlighterColor, highlighterSize, fabricRef, canvases, docState,
          clientSize, resizeListeners, hasCleanup, mounted, lastOp, events,
          preLoad>>

----------------------------------------------------------------------------
(* Bounds of the model *)

MaxPages == 2
MaxDim == 1
MaxStrokes == 1

(* Values *)

NoFile == 0
NoCanvas == 0
\* File objects: every selection yields a new one, so two tell new from old
Files == {1, 2}
\* the next-page button stays enabled past numPages: the model stops it here
PageCap == MaxPages + 1
Dims == 0..MaxDim
Coords == 1..MaxStrokes
Tools == {"pen", "highlighter", "eraser"}
Colors == {"#000000", "#FF0000", "#FFFF00"}

\* a JavaScript number: an integer or NaN
Num(v) == [nan |-> FALSE, val |-> v]
NaN == [nan |-> TRUE, val |-> 0]


----------------------------------------------------------------------------
(* parseInt(e.target.value), lines 157 and 182.  A string is a sequence of
   one-character strings. *)

Digits == {"0", "1", "2", "3", "4", "5", "6", "7", "8", "9"}

DigitVal(c) ==
    CASE c = "0" -> 0 [] c = "1" -> 1 [] c = "2" -> 2 [] c = "3" -> 3
      [] c = "4" -> 4 [] c = "5" -> 5 [] c = "6" -> 6 [] c = "7" -> 7
      [] c = "8" -> 8 [] c = "9" -> 9

RECURSIVE SkipSpace(_)
SkipSpace(s) ==
    IF s # <<>> /\ Head(s) = " " THEN SkipSpace(Tail(s)) ELSE s

\* the value of the longest prefix of digits of s, continuing from acc
RECURSIVE DigitsValue(_, _)
DigitsValue(s, acc) ==
    IF s # <<>> /\ Head(s) \in Digits
    THEN DigitsValue(Tail(s), 10 * acc + DigitVal(Head(s)))
    ELSE acc

parseInt(str) ==
    LET s == SkipSpace(str)
        neg == s # <<>> /\ Head(s) = "-"
        body == IF s # <<>> /\ Head(s) \in {"-", "+"} THEN Tail(s) ELSE s
    IN  IF body = <<>> \/ Head(body) \notin Digits
        THEN NaN
        ELSE Num(IF neg THEN 0 - DigitsValue(body, 0) ELSE DigitsValue(body, 0))

\* what the value of an <input type="number"> can be when its change event
\* fires: empty (nothing, or text that is no number), or a number as typed
SizeValues == { <<>>, <<"5">>, <<"2", ".", "5">>, <<"2", "5">> }

----------------------------------------------------------------------------
(* fabric.Canvas, as App.tsx uses it *)

\* the brush a new canvas carries before updateDrawingMode configures it
DefaultBrush ==
    [color |-> "rgb(0, 0, 0)", width |-> Num(1), opacity |-> "undefined",
     mode |-> "undefined", strokeLineCap |-> "round",
     strokeLineJoin |-> "round"]

\* new fabric.Canvas(canvasRef.current, {isDrawingMode: true, width, height})
NewCanvas(size) ==
    [isDrawingMode |-> TRUE, width |-> size[1], height |-> size[2],
     freeDrawingBrush |-> DefaultBrush, objects |-> {}, attached |-> TRUE]

\* the first id no live canvas has
FreshId(cs) == CHOOSE i \in 1..(Cardinality(DOMAIN cs) + 1) : i \notin DOMAIN cs

\* an updateDrawingMode whose eraser takes the pen's width
updateDrawingModeEraserPenWidth(canvas, mode, pColor, pSize, hColor, hSize) ==
    LET off == [canvas EXCEPT !.isDrawingMode = FALSE]
        brush == canvas.freeDrawingBrush
    IN  IF mode \in {"pen", "highlighter"}
        THEN [off EXCEPT
                !.isDrawingMode = TRUE,
                !.freeDrawingBrush =
                    [brush EXCEPT
                       !.color = IF mode = "pen" THEN pColor ELSE hColor,
                       !.width = IF mode = "pen" THEN pSize ELSE hSize,
                       !.opacity = IF mode = "pen" THEN "1" ELSE "0.5",
                       !.strokeLineCap = "round",
                       !.strokeLineJoin = "round"]]
        ELSE IF mode = "eraser"
        THEN [off EXCEPT
                !.isDrawingMode = TRUE,
                !.freeDrawingBrush =
                    [brush EXCEPT !.mode = "erase", !.width = pSize]]
        ELSE off

\* an updateDrawingMode that gives every drawing tool the pen's colour
updateDrawingModePenColor(canvas, mode, pColor, pSize, hColor, hSize) ==
    LET off == [canvas EXCEPT !.isDrawingMode = FALSE]
        brush == canvas.freeDrawingBrush
    IN  IF mode \in {"pen", "highlighter"}
        THEN [off EXCEPT
                !.isDrawingMode = TRUE,
                !.freeDrawingBrush =
                    [brush EXCEPT
                       !.color = pColor,
                       !.width = IF mode = "pen" THEN pSize ELSE hSize,
                       !.opacity = IF mode = "pen" THEN "1" ELSE "0.5",
                       !.strokeLineCap = "round",
                       !.strokeLineJoin = "round"]]
        ELSE IF mode = "eraser"
        THEN [off EXCEPT
                !.isDrawingMode = TRUE,
                !.freeDrawingBrush =
                    [brush EXCEPT !.mode = "erase", !.width = Num(20)]]
        ELSE off

\* updateDrawingMode applied to the canvas fabricRef.current
updateDrawingMode(canvas, mode, pColor, pSize, hColor, hSize) ==
    LET off == [canvas EXCEPT !.isDrawingMode = FALSE]
        brush == canvas.freeDrawingBrush
    IN  IF mode \in {"pen", "highlighter"}
        THEN [off EXCEPT
                !.isDrawingMode = TRUE,
                !.freeDrawingBrush =
                    [brush EXCEPT
                       !.color = IF mode = "pen" THEN pColor ELSE hColor,
                       !.width = IF mode = "pen" THEN pSize ELSE hSize,
                       !.opacity = IF mode = "pen" THEN "1" ELSE "0.5",
                       !.strokeLineCap = "round",
                       !.strokeLineJoin = "round"]]
        ELSE IF mode = "eraser"
        THEN [off EXCEPT
                !.isDrawingMode = TRUE,
                !.freeDrawingBrush =
                    [brush EXCEPT !.mode = "erase", !.width = Num(20)]]
        ELSE off

----------------------------------------------------------------------------
(* The useEffect of lines 47-115.  An effect state is the part of the state
   the effect reads and writes:
   [fabricRef, canvases, resizeListeners, hasCleanup, events]. *)

\* canvasRef.current and pageRef.current are set: the children of
\* <Document> are rendered, which it does once the file has loaded
RefsReady(f, doc) == f # NoFile /\ doc = "loaded"

\* fabricRef.current.dispose()
Dispose(es) ==
    [es EXCEPT
       !.canvases = [i \in DOMAIN es.canvases \ {es.fabricRef} |-> es.canvases[i]],
       !.events = Append(es.events,
                         IF es.fabricRef \in DOMAIN es.canvases
                         THEN "dispose" ELSE "redispose")]

\* a cleanup that drops the reference without disposing the canvas
CleanupLeak(es) ==
    [es EXCEPT !.resizeListeners = es.resizeListeners - 1,
               !.fabricRef = NoCanvas]

\* a cleanup that leaves handleResize registered on the window
CleanupKeepListener(es) ==
    IF es.fabricRef # NoCanvas
    THEN [Dispose(es) EXCEPT !.fabricRef = NoCanvas]
    ELSE es

\* the function returned at lines 108-114
Cleanup(es) ==
    LET unl == [es EXCEPT !.resizeListeners = es.resizeListeners - 1]
    IN  IF unl.fabricRef # NoCanvas
        THEN [Dispose(unl) EXCEPT !.fabricRef = NoCanvas]
        ELSE unl

\* an effect body that does not register handleResize on the window
SetupNoListener(es, refs, size, mode, pColor, pSize, hColor, hSize) ==
    IF ~refs
    THEN [es EXCEPT !.hasCleanup = FALSE]
    ELSE
      LET reset == IF es.fabricRef # NoCanvas THEN Dispose(es) ELSE es
          id == FreshId(reset.canvases)
          canvas == updateDrawingMode(NewCanvas(size), mode,
                                      pColor, pSize, hColor, hSize)
      IN  [reset EXCEPT
             !.canvases = [i \in DOMAIN reset.canvases \cup {id} |->
                             IF i = id THEN canvas ELSE reset.canvases[i]],
             !.fabricRef = id,
             !.events = Append(reset.events, "create"),
             !.hasCleanup = TRUE]

\* the effect's body, lines 48-106
Setup(es, refs, size, mode, pColor, pSize, hColor, hSize) ==
    IF ~refs
    THEN [es EXCEPT !.hasCleanup = FALSE]
    ELSE
      LET reset == IF es.fabricRef # NoCanvas THEN Dispose(es) ELSE es
          id == FreshId(reset.canvases)
          canvas == updateDrawingMode(NewCanvas(size), mode,
                                      pColor, pSize, hColor, hSize)
      IN  [reset EXCEPT
             !.canvases = [i \in DOMAIN reset.canvases \cup {id} |->
                             IF i = id THEN canvas ELSE reset.canvases[i]],
             !.fabricRef = id,
             !.events = Append(reset.events, "create"),
             !.resizeListeners = reset.resizeListeners + 1,
             !.hasCleanup = TRUE]

\* a dependency list that leaves out penColor and highlighterSize
DepsShort(mode, pColor, pSize, hColor, hSize, page) ==
    <<mode, pSize, hColor, page>>

\* the dependency list of line 115
Deps(mode, pColor, pSize, hColor, hSize, page) ==
    <<mode, pColor, pSize, hColor, hSize, page>>

EffectState ==
    [fabricRef |-> fabricRef, canvases |-> canvases,
     resizeListeners |-> resizeListeners, hasCleanup |-> hasCleanup,
     events |-> <<>>]

\* an effect that keeps the live canvas on a tool change and only
\* configures it again
RunEffectReconfigure(refs, mode, pColor, pSize, hColor, hSize, page) ==
    IF Deps(mode, pColor, pSize, hColor, hSize, page)
         = Deps(annotationMode, penColor, penSize, highlighterColor,
                highlighterSize, currentPage)
    THEN EffectState
    ELSE IF refs /\ page = currentPage /\ fabricRef \in DOMAIN canvases
    THEN [EffectState EXCEPT
            !.canvases[fabricRef] =
                updateDrawingMode(canvases[fabricRef], mode,
                                  pColor, pSize, hColor, hSize)]
    ELSE Setup(IF hasCleanup THEN Cleanup(EffectState) ELSE EffectState,
               refs, clientSize, mode, pColor, pSize, hColor, hSize)

\* a re-render with the new state: the effect runs again (the cleanup of its
\* last run, then its body) when a dependency changed
RunEffect(refs, mode, pColor, pSize, hColor, hSize, page) ==
    IF Deps(mode, pColor, pSize, hColor, hSize, page)
         = Deps(annotationMode, penColor, penSize, highlighterColor,
                highlighterSize, currentPage)
    THEN EffectState
    ELSE Setup(IF hasCleanup THEN Cleanup(EffectState) ELSE EffectState,
               refs, clientSize, mode, pColor, pSize, hColor, hSize)

\* the effect state written back to the variables
Commit(es) ==
    /\ fabricRef' = es.fabricRef
    /\ canvases' = es.canvases
    /\ resizeListeners' = es.resizeListeners
    /\ hasCleanup' = es.hasCleanup
    /\ events' = es.events

----------------------------------------------------------------------------
(* Initial state: the component has mounted with file = null, so the first
   run of the effect returned at line 48 *)

Init ==
    /\ file = NoFile
    /\ numPages = 0
    /\ currentPage = 1
    /\ annotationMode = "none"
    /\ penColor = "#000000"
    /\ penSize = Num(2)
    /\ highlighterColor = "#FFFF00"
    /\ highlighterSize = Num(10)
    /\ fabricRef = NoCanvas
    /\ canvases = <<>>
    /\ docState = "idle"
    /\ clientSize = <<0, 0>>
    /\ resizeListeners = 0
    /\ hasCleanup = FALSE
    /\ mounted = TRUE
    /\ lastOp = "mount"
    /\ events = <<>>
    /\ preLoad = [file |-> NoFile, currentPage |-> 1, numPages |-> 0]

Session == [file |-> file, currentPage |-> currentPage, numPages |-> numPages]

\* the toolbar and the page controls are rendered (line 135)
Shown == mounted /\ file # NoFile

toolVars == <<annotationMode, penColor, penSize, highlighterColor,
              highlighterSize>>

----------------------------------------------------------------------------
(* Document Session *)

\* an onFileChange without setCurrentPage(1)
onFileChangeKeepPage(f, track) ==
    /\ mounted
    /\ f # file
    /\ lastOp' = "onFileChange"
    /\ IF f = NoFile
       THEN /\ events' = <<>>
            /\ UNCHANGED <<file, numPages, currentPage, toolVars, fabricRef,
                           canvases, docState, clientSize, resizeListeners,
                           hasCleanup, mounted, preLoad>>
       ELSE LET es == RunEffect(RefsReady(f, docState), annotationMode,
                                penColor, penSize, highlighterColor,
                                highlighterSize, currentPage)
            IN  /\ file' = f
                /\ currentPage' = currentPage
                /\ preLoad' = IF track THEN Session ELSE preLoad
                /\ Commit([es EXCEPT !.canvases =
                             [i \in DOMAIN es.canvases |->
                                [es.canvases[i] EXCEPT !.attached = FALSE]]])
                /\ docState' = "loading"
                /\ clientSize' = <<0, 0>>
                /\ UNCHANGED <<numPages, toolVars, mounted>>

\* onFileChange, lines 26-32; f = NoFile: the change event carries no file.
\* track: the history variable preLoad records the session it replaces.
\* A new file prop makes <Document> load again, which unmounts its children
\* (the page container and the canvas element) until the load succeeds.
onFileChange(f, track) ==
    /\ mounted
    /\ f # file
    /\ lastOp' = "onFileChange"
    /\ IF f = NoFile
       THEN /\ events' = <<>>
            /\ UNCHANGED <<file, numPages, currentPage, toolVars, fabricRef,
                           canvases, docState, clientSize, resizeListeners,
                           hasCleanup, mounted, preLoad>>
       ELSE LET es == RunEffect(RefsReady(f, docState), annotationMode,
                                penColor, penSize, highlighterColor,
                                highlighterSize, 1)
            IN  /\ file' = f
                /\ currentPage' = 1
                /\ preLoad' = IF track THEN Session ELSE preLoad
                /\ Commit([es EXCEPT !.canvases =
                             [i \in DOMAIN es.canvases |->
                                [es.canvases[i] EXCEPT !.attached = FALSE]]])
                /\ docState' = "loading"
                /\ clientSize' = <<0, 0>>
                /\ UNCHANGED <<numPages, toolVars, mounted>>

\* onDocumentLoadSuccess, lines 34-36, called by <Document> (line 201), which
\* then renders its children; size is what the page container measures then
onDocumentLoadSuccess(n, size) ==
    /\ mounted
    /\ docState = "loading"
    /\ lastOp' = "onDocumentLoadSuccess"
    /\ numPages' = n
    /\ docState' = "loaded"
    /\ clientSize' = size
    /\ Commit(RunEffect(TRUE, annotationMode, penColor, penSize,
                        highlighterColor, highlighterSize, currentPage))
    /\ UNCHANGED <<file, currentPage, toolVars, mounted, preLoad>>

\* <Document> fails to load the file: it has no onLoadError prop (lines
\* 199-203), so no handler of App runs
DocumentLoadError ==
    /\ mounted
    /\ docState = "loading"
    /\ lastOp' = "loadError"
    /\ docState' = "failed"
    /\ events' = <<>>
    /\ UNCHANGED <<file, numPages, currentPage, toolVars, fabricRef, canvases,
                   clientSize, resizeListeners, hasCleanup, mounted, preLoad>>

\* handlePageChange, lines 38-40
handlePageChange(newPage) ==
    /\ currentPage' = newPage
    /\ Commit(RunEffect(RefsReady(file, docState), annotationMode, penColor,
                        penSize, highlighterColor, highlighterSize, newPage))
    /\ UNCHANGED <<file, numPages, toolVars, docState, clientSize, mounted,
                   preLoad>>

\* the previous-page button, lines 214-219
PrevPage ==
    /\ Shown
    /\ ~(currentPage = 1)
    /\ lastOp' = "prevPage"
    /\ handlePageChange(currentPage - 1)

\* the next-page button, lines 223-228
NextPage ==
    /\ Shown
    /\ ~(currentPage = numPages)
    /\ currentPage < PageCap
    /\ lastOp' = "nextPage"
    /\ handlePageChange(currentPage + 1)

----------------------------------------------------------------------------
(* Annotation Controller *)

\* a re-render after the tool state became (mode, pColor, pSize, hColor, hSize)
SetTool(mode, pColor, pSize, hColor, hSize) ==
    /\ annotationMode' = mode
    /\ penColor' = pColor
    /\ penSize' = pSize
    /\ highlighterColor' = hColor
    /\ highlighterSize' = hSize
    /\ Commit(RunEffect(RefsReady(file, docState), mode, pColor, pSize,
                        hColor, hSize, currentPage))
    /\ UNCHANGED <<file, numPages, currentPage, docState, clientSize, mounted,
                   preLoad>>

\* handleAnnotationToolSelect, lines 42-44, from the tool buttons
handleAnnotationToolSelect(tool) ==
    /\ Shown
    /\ lastOp' = "handleAnnotationToolSelect"
    /\ SetTool(tool, penColor, penSize, highlighterColor, highlighterSize)

\* a pen colour input that is never disabled
setPenColorAlways(c) ==
    /\ Shown
    /\ c # penColor
    /\ lastOp' = "setPenColor"
    /\ SetTool(annotationMode, c, penSize, highlighterColor, highlighterSize)

\* the pen's colour input, lines 145-151
setPenColor(c) ==
    /\ Shown
    /\ ~(annotationMode # "pen")
    /\ c # penColor
    /\ lastOp' = "setPenColor"
    /\ SetTool(annotationMode, c, penSize, highlighterColor, highlighterSize)

\* the pen's size input, lines 152-160
setPenSize(value) ==
    /\ Shown
    /\ ~(annotationMode # "pen")
    /\ lastOp' = "setPenSize"
    /\ SetTool(annotationMode, penColor, parseInt(value), highlighterColor,
               highlighterSize)

\* the highlighter's colour input, lines 170-176
setHighlighterColor(c) ==
    /\ Shown
    /\ ~(annotationMode # "highlighter")
    /\ c # highlighterColor
    /\ lastOp' = "setHighlighterColor"
    /\ SetTool(annotationMode, penColor, penSize, c, highlighterSize)

\* the highlighter's size input, lines 177-185
setHighlighterSize(value) ==
    /\ Shown
    /\ ~(annotationMode # "highlighter")
    /\ lastOp' = "setHighlighterSize"
    /\ SetTool(annotationMode, penColor, penSize, highlighterColor,
               parseInt(value))

----------------------------------------------------------------------------
(* Surface Manager *)

\* a handleResize that sets the width and forgets the height
handleResizeWidthOnly(es, refs, size) ==
    IF es.fabricRef # NoCanvas /\ refs
    THEN IF es.fabricRef \in DOMAIN es.canvases
         THEN [es EXCEPT !.canvases[es.fabricRef].width = size[1],
                         !.events = Append(es.events, "resize")]
         ELSE [es EXCEPT !.events = Append(es.events, "resizeDisposed")]
    ELSE es

\* handleResize, lines 99-104, run on an effect state
handleResize(es, refs, size) ==
    IF es.fabricRef # NoCanvas /\ refs
    THEN IF es.fabricRef \in DOMAIN es.canvases
         THEN [es EXCEPT !.canvases[es.fabricRef].width = size[1],
                         !.canvases[es.fabricRef].height = size[2],
                         !.events = Append(es.events, "resize")]
         ELSE [es EXCEPT !.events = Append(es.events, "resizeDisposed")]
    ELSE es

\* the window's resize event: the page container is laid out at the new
\* size, then the registered listeners run (they all do the same)
WindowResize(size) ==
    LET refs == mounted /\ RefsReady(file, docState)
        now == IF refs THEN size ELSE clientSize
    IN  /\ lastOp' = "resize"
        /\ clientSize' = now
        /\ Commit(IF resizeListeners > 0
                  THEN handleResize(EffectState, refs, now)
                  ELSE EffectState)
        /\ UNCHANGED <<file, numPages, currentPage, toolVars, docState,
                       mounted, preLoad>>

\* <Page> (line 205) finishes rendering: the page container takes the size
\* of the rendered page; no event reaches App
PageLayout(size) ==
    /\ mounted
    /\ RefsReady(file, docState)
    /\ size # clientSize
    /\ lastOp' = "layout"
    /\ clientSize' = size
    /\ events' = <<>>
    /\ UNCHANGED <<file, numPages, currentPage, toolVars, fabricRef, canvases,
                   docState, resizeListeners, hasCleanup, mounted, preLoad>>

\* the user draws a stroke at c on the canvas, with the brush as configured:
\* a brush in erase mode removes the stroke there, any other adds one
Draw(c) ==
    /\ mounted
    /\ fabricRef \in DOMAIN canvases
    /\ LET canvas == canvases[fabricRef]
       IN  /\ canvas.attached
           /\ canvas.isDrawingMode
           /\ canvas.width > 0 /\ canvas.height > 0
           /\ canvases' = [canvases EXCEPT ![fabricRef].objects =
                             IF canvas.freeDrawingBrush.mode = "erase"
                             THEN canvas.objects \ {c}
                             ELSE canvas.objects \cup {c}]
    /\ lastOp' = "draw"
    /\ events' = <<>>
    /\ UNCHANGED <<file, numPages, currentPage, toolVars, fabricRef, docState,
                   clientSize, resizeListeners, hasCleanup, mounted, preLoad>>

\* the component unmounts: React runs the cleanup of the effect's last run
Unmount ==
    /\ mounted
    /\ lastOp' = "unmount"
    /\ mounted' = FALSE
    /\ Commit(IF hasCleanup
              THEN [Cleanup(EffectState) EXCEPT !.hasCleanup = FALSE]
              ELSE EffectState)
    /\ clientSize' = <<0, 0>>
    /\ UNCHANGED <<file, numPages, currentPage, toolVars, docState, preLoad>>

----------------------------------------------------------------------------

Sizes == Dims \X Dims

\* the events of the component, with the inputs drawn from the given sets:
\* page counts, page-container sizes, stroke positions, the colours the
\* colour inputs deliver and the strings the size inputs deliver
NextOver(track, pages, sizes, coords, colors, values) ==
    \/ \E f \in Files \cup {NoFile} : onFileChange(f, track)
    \/ \E n \in pages, size \in sizes : onDocumentLoadSuccess(n, size)
    \/ DocumentLoadError
    \/ PrevPage
    \/ NextPage
    \/ \E tool \in Tools : handleAnnotationToolSelect(tool)
    \/ \E c \in colors : setPenColor(c)
    \/ \E value \in values : setPenSize(value)
    \/ \E c \in colors : setHighlighterColor(c)
    \/ \E value \in values : setHighlighterSize(value)
    \/ \E size \in sizes : WindowResize(size)
    \/ \E size \in sizes : PageLayout(size)
    \/ \E c \in coords : Draw(c)
    \/ Unmount

\* document, page and surface lifecycle over all page counts, sizes and
\* strokes of the bounds; the colour and size inputs deliver one value each
Next == NextOver(FALSE, 1..MaxPages, Sizes, Coords, {"#FF0000"}, {<<>>})

Spec == Init /\ [][Next]_vars

\* the same, recording in preLoad the session each file selection replaces
NextLoad == NextOver(TRUE, 1..MaxPages, Sizes, Coords, {"#FF0000"}, {<<>>})

SpecLoad == Init /\ [][NextLoad]_vars

\* the tool configuration over all colours and size-input strings, on
\* documents of MaxPages pages whose page container is laid out or not
NextTool ==
    NextOver(FALSE, {MaxPages}, {<<0, 0>>, <<MaxDim, MaxDim>>}, Coords,
             Colors, SizeValues)

SpecTool == Init /\ [][NextTool]_vars

\* the lifecycle on the documents and page-container sizes of SpecTool, with
\* the colour and size inputs of Spec
NextOrder ==
    NextOver(FALSE, {MaxPages}, {<<0, 0>>, <<MaxDim, MaxDim>>}, Coords,
             {"#FF0000"}, {<<>>})

SpecOrder == Init /\ [][NextOrder]_vars

----------------------------------------------------------------------------
(* Properties *)

PageOps == {"prevPage", "nextPage"}
ToolOps == {"handleAnnotationToolSelect", "setPenColor", "setPenSize",
            "setHighlighterColor", "setHighlighterSize"}

\* the live surface, where there is one
Surface == canvases[fabricRef]
Live == fabricRef \in DOMAIN canvases
AreaAvailable ==
    mounted /\ RefsReady(file, docState) /\ clientSize[1] > 0 /\ clientSize[2] > 0

\* C1: whenever a file is loaded, 1 <= currentPage <= numPages, the time
\* between the selection of a file and its load-success callback included.
C1_PageIndexInRange ==
    file # NoFile => 1 <= currentPage /\ currentPage <= numPages

\* C2: a step that changes file or currentPage while a surface is live
\* disposes that surface and creates a new one, which holds no stroke.
C2_FileOrPageChangeRecreates ==
    [][ (file' # file \/ currentPage' # currentPage) /\ Live
        => /\ events' = <<"dispose", "create">>
           /\ fabricRef' \in DOMAIN canvases'
           /\ canvases'[fabricRef'].objects = {} ]_vars

\* C3: a tool selection or a colour / width change while a surface is live
\* keeps that surface (no dispose, no create) and the strokes it holds.
C3_ToolChangeKeepsSurface ==
    [][ lastOp' \in ToolOps /\ Live
        => /\ events' = <<>>
           /\ fabricRef' = fabricRef
           /\ fabricRef' \in DOMAIN canvases'
           /\ canvases'[fabricRef'].objects = Surface.objects ]_vars

\* C4: at most one surface is live, and it is the one fabricRef holds (none
\* is leaked); a step creates a surface last, after disposing the one that
\* was live, and never disposes twice; after unmount no surface is live.
C4_OneLiveSurface ==
    /\ Cardinality(DOMAIN canvases) <= 1
    /\ DOMAIN canvases = IF fabricRef = NoCanvas THEN {} ELSE {fabricRef}
    /\ events \in {<<>>, <<"create">>, <<"dispose">>, <<"dispose", "create">>,
                   <<"resize">>}
    /\ ~mounted => DOMAIN canvases = {}

\* a surface was replaced: disposed and created anew in one step
C4_Witness ==
    /\ events = <<"dispose", "create">>
    /\ Live
    /\ lastOp \in PageOps \cup ToolOps \cup {"onFileChange"}

\* C5: a page button whose target p is in 1..numPages sets currentPage to p
\* with exactly one dispose followed by exactly one create.
C5_GoToPageOneCycle ==
    [][ \A p \in 1..numPages :
          \/ lastOp' = "prevPage" /\ p = currentPage - 1
          \/ lastOp' = "nextPage" /\ p = currentPage + 1
          => currentPage' = p /\ events' = <<"dispose", "create">> ]_vars

\* C6: a page button whose target is below 1 or above numPages changes
\* neither currentPage nor any surface.
C6_OutOfRangeIsNoOp ==
    [][ \/ lastOp' = "prevPage" /\ currentPage - 1 < 1
        \/ lastOp' = "nextPage" /\ currentPage + 1 > numPages
        => currentPage' = currentPage /\ events' = <<>> ]_vars

C8_SurfaceAfterLoad ==
    lastOp = "onDocumentLoadSuccess" => Live /\ Surface.attached

\* C9: after a failed load the session is the one before the selection and
\* no surface event happened.
C9_FailedLoadRestoresSession ==
    lastOp = "loadError" => Session = preLoad /\ events = <<>>

\* C10: no surface is created on an area that is missing or of size zero,
\* and after a window resize with the area available a surface is live.
C10_ZeroSizeRetried ==
    /\ (Live /\ "create" \in {events[i] : i \in 1..Len(events)})
          => Surface.width > 0 /\ Surface.height > 0
    /\ (lastOp = "resize" /\ AreaAvailable) => Live

----------------------------------------------------------------------------
(* The two handlers whose order C11 is about, as functions of the state they
   touch: st = [es |-> effect state, size |-> clientSize, deps |-> the
   dependencies of the effect's last run] *)

Here ==
    [es |-> EffectState, size |-> clientSize,
     deps |-> Deps(annotationMode, penColor, penSize, highlighterColor,
                   highlighterSize, currentPage)]

\* the window's resize event to size, as in WindowResize
ResizeOn(st, refs, size) ==
    LET now == IF refs THEN size ELSE st.size
    IN  [st EXCEPT !.size = now,
                   !.es = IF st.es.resizeListeners > 0
                          THEN handleResize(st.es, refs, now)
                          ELSE st.es]

\* a re-render with the dependencies new, as in RunEffect
EffectOn(st, refs, new) ==
    IF new = st.deps
    THEN st
    ELSE [st EXCEPT
            !.deps = new,
            !.es = Setup(IF st.es.hasCleanup THEN Cleanup(st.es) ELSE st.es,
                         refs, st.size, new[1], new[2], new[3], new[4],
                         new[5])]

\* the dependencies one tool, colour, size or page event can produce here
ConfigChanges ==
    {Deps(t, penColor, penSize, highlighterColor, highlighterSize,
          currentPage) : t \in Tools}
    \cup {Deps(annotationMode, c, penSize, highlighterColor,
               highlighterSize, currentPage) :
            c \in IF annotationMode = "pen" THEN Colors ELSE {}}
    \cup {Deps(annotationMode, penColor, parseInt(v), highlighterColor,
               highlighterSize, currentPage) :
            v \in IF annotationMode = "pen" THEN SizeValues ELSE {}}
    \cup {Deps(annotationMode, penColor, penSize, c, highlighterSize,
               currentPage) :
            c \in IF annotationMode = "highlighter" THEN Colors ELSE {}}
    \cup {Deps(annotationMode, penColor, penSize, highlighterColor,
               parseInt(v), currentPage) :
            v \in IF annotationMode = "highlighter" THEN SizeValues ELSE {}}
    \cup {Deps(annotationMode, penColor, penSize, highlighterColor,
               highlighterSize, p) :
            p \in {currentPage - 1, currentPage + 1} \ {0}}

\* the surface state two runs are compared on: everything but the order in
\* which the lifecycle events were logged
NoLog(st) == [st EXCEPT !.es.events = <<>>]

\* C11: a window resize handled twice for the same size leaves the surface
\* as handling it once does, and a resize and a tool, colour, size or page
\* change end in the same surface state (bounds, configuration, liveness,
\* listener) in either order.
C11_ResizeOrderIndependent ==
    Shown =>
      \A size \in Sizes :
        LET refs == RefsReady(file, docState)
            once == ResizeOn(Here, refs, size)
        IN  /\ NoLog(ResizeOn(once, refs, size)) = NoLog(once)
            /\ \A new \in ConfigChanges :
                 NoLog(EffectOn(once, refs, new))
                   = NoLog(ResizeOn(EffectOn(Here, refs, new), refs, size))

\* a resize handled after a tool was selected: the surface that selection
\* created has the size of the page container
C11_Witness ==
    /\ lastOp = "resize"
    /\ events = <<"resize">>
    /\ annotationMode # "none"
    /\ Live
    /\ Surface.width = clientSize[1] /\ Surface.height = clientSize[2]
    /\ clientSize[1] > 0 /\ clientSize[2] > 0

\* C12: a window resize while a surface is live on a rendered page sets
\* that surface's width and height to the page container's new size and
\* changes nothing else: the same surface, its strokes, its brush, the tool
\* state and the session stay as they were.
C12_ResizeOnlySetsBounds ==
    [][ lastOp' = "resize" /\ Live /\ mounted /\ RefsReady(file, docState)
        => /\ fabricRef' = fabricRef
           /\ canvases' = [canvases EXCEPT
                             ![fabricRef].width = clientSize'[1],
                             ![fabricRef].height = clientSize'[2]]
           /\ UNCHANGED <<toolVars, file, numPages, currentPage, docState,
                          resizeListeners, hasCleanup, mounted>> ]_vars

\* a surface holding a stroke was resized to the page container's size
C12_Witness ==
    /\ lastOp = "resize"
    /\ events = <<"resize">>
    /\ Live
    /\ Surface.objects # {}
    /\ <<Surface.width, Surface.height>> = clientSize

\* C13: a file selection that yields a file sets currentPage to 1, whatever
\* it was before.
C13_NewFileResetsPage ==
    [][ lastOp' = "onFileChange" /\ file' # file
        => file' # NoFile /\ currentPage' = 1 ]_vars

\* a file was selected while another page than 1 was shown: the page index
\* changed, so the effect ran again
C13_Witness ==
    /\ lastOp = "onFileChange"
    /\ file # NoFile
    /\ currentPage = 1
    /\ events # <<>>

PrevDisabled == currentPage = 1
\* disabled={currentPage === numPages}, line 225
NextDisabled == currentPage = numPages

\* C16: the page controls track the boundaries: once a file has loaded the
\* first page is shown with previous disabled and, when the file has more
\* than one page, next enabled.
C16_ControlsTrackBoundaries ==
    lastOp = "onDocumentLoadSuccess"
      => /\ currentPage = 1
         /\ PrevDisabled
         /\ numPages > 1 => ~NextDisabled

\* C17: penColor and penSize change only in steps taken with the pen
\* active, highlighterColor and highlighterSize only with the highlighter
\* active.
C17_InputsOfActiveToolOnly ==
    [][ /\ penColor' # penColor \/ penSize' # penSize
           => annotationMode = "pen"
        /\ highlighterColor' # highlighterColor
             \/ highlighterSize' # highlighterSize
           => annotationMode = "highlighter" ]_vars

\* the pen's colour was changed with the pen active
C17_Witness ==
    /\ lastOp = "setPenColor"
    /\ annotationMode = "pen"
    /\ penColor = "#FF0000"

\* C18: penSize is an integer in 1..10 and highlighterSize an integer in
\* 5..20 in every reachable state.
C18_WidthsInRange ==
    /\ ~penSize.nan
    /\ 1 <= penSize.val /\ penSize.val <= 10
    /\ ~highlighterSize.nan
    /\ 5 <= highlighterSize.val /\ highlighterSize.val <= 20

\* C19: handleResize is registered exactly while a surface is live, the
\* reference never names a disposed canvas, no step disposes a canvas twice
\* or resizes a disposed one, and after the unmount no canvas and no
\* listener is left for a resize event to act on.
C19_LifecycleClosed ==
    /\ resizeListeners = (IF Live THEN 1 ELSE 0)
    /\ fabricRef # NoCanvas => Live
    /\ \A i \in 1..Len(events) :
         events[i] \notin {"redispose", "resizeDisposed"}
    /\ ~mounted => /\ canvases = <<>>
                   /\ fabricRef = NoCanvas
                   /\ lastOp = "resize" => events = <<>>

\* a resize event arrived after the unmount had disposed the surface
C19_Witness ==
    /\ ~mounted
    /\ lastOp = "resize"
    /\ resizeListeners = 0
    /\ canvases = <<>>

\* C20: with the pen or the highlighter active, the live surface's brush is
\* not in erase mode.
C20_EraseModeNeverLeaks ==
    annotationMode \in {"pen", "highlighter"} /\ Live
      => Surface.freeDrawingBrush.mode # "erase"

\* a drawing tool was selected while a surface configured for another tool
\* was live
C20_Witness ==
    /\ lastOp = "handleAnnotationToolSelect"
    /\ annotationMode \in {"pen", "highlighter"}
    /\ events = <<"dispose", "create">>
    /\ Live
    /\ Surface.freeDrawingBrush.mode = "undefined"

=============================================================================
